---- MODULE Spec2Model ----
(***************************************************************************)
(* Model of cpu16.cpp: an emulator of a hypothetical 16-bit CPU with a     *)
(* Harvard memory layout (ROM, RAM), five 16-bit registers (reg[0] is the  *)
(* program counter, reg[1] the flags) and a run loop that executes one     *)
(* two-word instruction per cycle until halt is set.                       *)
(***************************************************************************)
EXTENDS Integers, Sequences, FiniteSets, TLC

\* ------------------------------------------------------------------------
\* Program constants
\* ------------------------------------------------------------------------

\* uint16_t: every register and memory word is reduced modulo 2^16.
WordMod == 65536

\* uint16_t ROM[0xFFFF]: the array has 0xFFFF elements, indices 0..0xFFFE.
ROMSize == 65535

\* uint16_t RAM[0xFFFF]
RAMSize == 65535

\* uint16_t reg[5]
NumRegs == 5

\* ROM[i] = 0xFFFF: the word main() fills the whole ROM with before loading.
HLTWord == 65535

\* ------------------------------------------------------------------------
\* Bounds of the model (inputs to runInstruction are drawn from these)
\* ------------------------------------------------------------------------

\* Register selectors drawn for the register-using opcodes are 0..MaxSel;
\* 0..NumRegs-1 index the register file, larger ones index past its end.
MaxSel == 5

\* The cycle counter saturates at MaxCycles (it is an observer, not state of
\* the program, so it never blocks a cycle).
MaxCycles == 3

\* Register contents drawn as inputs.
Words == {0, 1, 65535}

\* Flags-register contents drawn as inputs: nothing set, GT only, LT only,
\* reserved bits 3 and 15 only, everything set.
FlagInputs == {0, 1, 4, 32776, 65535}

\* Literal operands drawn as inputs.
Lits == {0, 6, 65534, 65535}

\* Mode and flag-bit fields drawn for the jump opcode.
Modes == {0, 1, 2, 15}
FlagBits == {0, 1, 2, 3, 15}

\* Values an out-of-range read (past the end of reg[] or ROM[]) may yield.
WildWords == Words

\* ------------------------------------------------------------------------
\* 16-bit bitwise arithmetic (C's &, | and ~ on uint16_t operands)
\* ------------------------------------------------------------------------

RECURSIVE BitAnd(_, _, _)
BitAnd(a, b, n) ==
  IF n = 0 THEN 0
  ELSE (a % 2) * (b % 2) + 2 * BitAnd(a \div 2, b \div 2, n - 1)

RECURSIVE BitOr(_, _, _)
BitOr(a, b, n) ==
  IF n = 0 THEN 0
  ELSE (IF (a % 2) + (b % 2) > 0 THEN 1 ELSE 0)
       + 2 * BitOr(a \div 2, b \div 2, n - 1)

\* uint16_t mask = 1 << bitpos
Mask(bitpos) == (2 ^ bitpos) % WordMod

\* uint16_t getbit(uint16_t num, int bitpos): num & mask (nonzero iff set)
getbit(num, bitpos) == BitAnd(num, Mask(bitpos), 16)

\* void setbit(uint16_t &num, int bitpos, bool set): the new value of num
setbit(num, bitpos, set) ==
  IF set THEN BitOr(num, Mask(bitpos), 16)
  ELSE BitAnd(num, (WordMod - 1) - Mask(bitpos), 16)

\* getNibble3 with getNibble2's shift copied: (num >> 8) & 0x000F
getNibble3_shift8(num) == BitAnd(num \div 256, 15, 16)

\* The four nibbles of the first word of an instruction.
getNibble1(num) == num \div 4096
getNibble2(num) == BitAnd(num \div 256, 15, 16)
getNibble3(num) == BitAnd(num \div 16, 15, 16)
getNibble4(num) == BitAnd(num, 15, 16)

\* The instruction word with the given nibbles (used to write programs).
Encode(n1, n2, n3, n4) == n1 * 4096 + n2 * 256 + n3 * 16 + n4

\* ------------------------------------------------------------------------
\* State
\* ------------------------------------------------------------------------

VARIABLES
  reg,          \* uint16_t reg[5]
  halt,         \* bool halt
  ROM,          \* the ROM cells main() assigned after the fill loop
  RAM,          \* RAM cells at the probed addresses
  out,          \* the values written to std::cout, in order
  instruction,  \* first argument of the last runInstruction call (-1: none yet)
  address,      \* second argument of the last runInstruction call
  fetch,        \* the two ROM indices of the last fetch
  access,       \* the reg[] indices the last instruction read or wrote
  pre,          \* reg, ROM, RAM and out as they were before the last cycle
  cycles,       \* number of cycles executed, saturating at MaxCycles
  executedOUT   \* number of cycles that took the OUT case of the switch

vars == <<reg, halt, ROM, RAM, out, instruction, address, fetch, access, pre,
          cycles, executedOUT>>

\* RAM addresses the model tracks.  No opcode implemented by runInstruction
\* addresses RAM, so all other cells behave like these.
RAMProbe == {0, 1, RAMSize - 1}

\* The word held by ROM[i] for an index inside the array: the assigned cell,
\* or the fill word 0xFFFF written by the loop "for (i = 0; i < 0xFFFF; i++)".
\* An index outside the array reads whatever lies there: wild.
ROMread(i, wild) ==
  IF i \in DOMAIN ROM THEN ROM[i]
  ELSE IF i < ROMSize THEN HLTWord
  ELSE wild

\* The values an access may yield: a single dummy value when the access is
\* inside its array (the dummy is never used), any wild word when it is not.
WildIf(outside) == IF outside THEN WildWords ELSE {0}

\* reg[n] as read by the instruction, r being the register file
RegRead(r, n, wild) == IF n < NumRegs THEN r[n] ELSE wild

\* reg[n] = v.  Inside the array the slot is assigned.  Past its end the
\* store lands on whatever the build placed after reg[]: something the
\* program never reads, the halt flag, or a cell of ROM[] or RAM[].
RegWrite(r, n, v) ==
  IF n < NumRegs
  THEN /\ reg' = [r EXCEPT ![n] = v]
       /\ UNCHANGED <<ROM, RAM>>
       /\ halt' = halt
  ELSE /\ reg' = r
       /\ \E target \in {"none", "halt", "rom", "ram"} :
            /\ halt' \in (IF target = "halt" THEN BOOLEAN ELSE {halt})
            /\ ROM' \in (IF target = "rom"
                         THEN {[ROM EXCEPT ![k] = v] : k \in DOMAIN ROM}
                         ELSE {ROM})
            /\ RAM' \in (IF target = "ram"
                         THEN {[RAM EXCEPT ![k] = v] : k \in RAMProbe}
                         ELSE {RAM})

\* Advance with the increment done in int and never narrowed to uint16_t.
Advance_nowrap(r) == [r EXCEPT ![0] = r[0] + 2]

\* reg[0] += 2
Advance(r) == [r EXCEPT ![0] = (r[0] + 2) % WordMod]

\* AddWords with | written for +.
AddWords_or(a, b) == BitOr(a, b, 16)

\* AddWords with the sum kept in int and never narrowed to uint16_t.
AddWords_nowrap(a, b) == a + b

\* ADD: reg[n2] + reg[n3] as a uint16_t
AddWords(a, b) == (a + b) % WordMod

\* The observers updated by every cycle.
Observe(ins, adr, used) ==
  /\ instruction' = ins
  /\ address' = adr
  /\ fetch' = <<reg[0], reg[0] + 1>>
  /\ access' = used
  /\ pre' = [reg |-> reg, ROM |-> ROM, RAM |-> RAM, out |-> out]
  /\ cycles' = IF cycles < MaxCycles THEN cycles + 1 ELSE cycles
  /\ executedOUT' = IF getNibble1(ins) = 7 THEN executedOUT + 1
                    ELSE executedOUT

\* ------------------------------------------------------------------------
\* Pieces of runInstruction
\* ------------------------------------------------------------------------

\* ClearCmpFlags written as reg[1] = 0.
ClearCmpFlags_all(flags) == 0

\* CMP: setbit(reg[1], 0, 0); setbit(reg[1], 1, 0); setbit(reg[1], 2, 0)
ClearCmpFlags(flags) ==
  setbit(setbit(setbit(flags, 0, FALSE), 1, FALSE), 2, FALSE)

\* CMP: the if / else if / else if chain that sets one comparison bit
SetCmpFlag(flags, a, b) ==
  IF a > b THEN setbit(flags, 0, TRUE)
  ELSE IF a = b THEN setbit(flags, 1, TRUE)
  ELSE IF a < b THEN setbit(flags, 2, TRUE)
  ELSE flags

\* JumpTaken with the tests of modes 0 and 1 exchanged.
JumpTaken_swapped(n2, n3, flags) ==
  IF n2 = 0 THEN getbit(flags, n3) # 0
  ELSE IF n2 = 1 THEN getbit(flags, n3) = 0
  ELSE TRUE

\* JumpTaken with "else if (n2 == 2)" for the final else.
JumpTaken_mode2only(n2, n3, flags) ==
  IF n2 = 0 THEN getbit(flags, n3) = 0
  ELSE IF n2 = 1 THEN getbit(flags, n3) # 0
  ELSE n2 = 2

\* JumpTaken with every mode jumping: the overflow test never ends the loop.
JumpTaken_always(n2, n3, flags) == TRUE

\* J: whether reg[0] = address is executed
JumpTaken(n2, n3, flags) ==
  IF n2 = 0 THEN getbit(flags, n3) = 0
  ELSE IF n2 = 1 THEN getbit(flags, n3) # 0
  ELSE TRUE

\* Running with the loop written while (true).
Running_always == TRUE

\* The loop condition of main(): while (!halt)
Running == ~halt

\* ------------------------------------------------------------------------
\* One action per case of the switch in runInstruction.  Each is a whole
\* cycle of the run loop: the loop test, the fetch of ROM[reg[0]] and
\* ROM[reg[0]+1], the decode, reg[0] += 2, and the case's statements.
\* ------------------------------------------------------------------------

\* ExecADD with a carry flag: bit 3 of reg[1] records whether the sum wrapped.
ExecADD_carry ==
  /\ Running
  /\ \E wi \in WildIf(reg[0] >= ROMSize), wa \in WildIf(reg[0] + 1 >= ROMSize) :
       LET ins == ROMread(reg[0], wi)
           adr == ROMread(reg[0] + 1, wa)
           n2 == getNibble2(ins)
           n3 == getNibble3(ins)
           n4 == getNibble4(ins)
           r0 == Advance(reg)
       IN /\ getNibble1(ins) = 0
          /\ \E w2 \in WildIf(n2 >= NumRegs), w3 \in WildIf(n3 >= NumRegs) :
               LET a == RegRead(r0, n2, w2)
                   b == RegRead(r0, n3, w3)
                   r == [r0 EXCEPT ![1] = setbit(r0[1], 3, a + b >= WordMod)]
               IN /\ n2 = n3 => w2 = w3
                  /\ RegWrite(r, n4, AddWords(a, b))
          /\ out' = out
          /\ Observe(ins, adr, {n2, n3, n4})

\* case 0x0: reg[n4] = reg[n2] + reg[n3]
ExecADD ==
  /\ Running
  /\ \E wi \in WildIf(reg[0] >= ROMSize), wa \in WildIf(reg[0] + 1 >= ROMSize) :
       LET ins == ROMread(reg[0], wi)
           adr == ROMread(reg[0] + 1, wa)
           n2 == getNibble2(ins)
           n3 == getNibble3(ins)
           n4 == getNibble4(ins)
           r == Advance(reg)
       IN /\ getNibble1(ins) = 0
          /\ \E w2 \in WildIf(n2 >= NumRegs), w3 \in WildIf(n3 >= NumRegs) :
               /\ n2 = n3 => w2 = w3
               /\ RegWrite(r, n4,
                           AddWords(RegRead(r, n2, w2), RegRead(r, n3, w3)))
          /\ out' = out
          /\ Observe(ins, adr, {n2, n3, n4})

\* case 0x5: clear flag bits 0..2, then set the one that compares reg[n2]
\* with reg[n3]
ExecCMP ==
  /\ Running
  /\ \E wi \in WildIf(reg[0] >= ROMSize), wa \in WildIf(reg[0] + 1 >= ROMSize) :
       LET ins == ROMread(reg[0], wi)
           adr == ROMread(reg[0] + 1, wa)
           n2 == getNibble2(ins)
           n3 == getNibble3(ins)
           r0 == Advance(reg)
           r == [r0 EXCEPT ![1] = ClearCmpFlags(r0[1])]
       IN /\ getNibble1(ins) = 5
          /\ \E w2 \in WildIf(n2 >= NumRegs), w3 \in WildIf(n3 >= NumRegs) :
               /\ n2 = n3 => w2 = w3
               /\ reg' = [r EXCEPT ![1] =
                            SetCmpFlag(r[1], RegRead(r, n2, w2),
                                       RegRead(r, n3, w3))]
          /\ UNCHANGED <<halt, ROM, RAM, out>>
          /\ Observe(ins, adr, {1, n2, n3})

\* case 0x6: reg[n3] = reg[n2]
ExecCPY ==
  /\ Running
  /\ \E wi \in WildIf(reg[0] >= ROMSize), wa \in WildIf(reg[0] + 1 >= ROMSize) :
       LET ins == ROMread(reg[0], wi)
           adr == ROMread(reg[0] + 1, wa)
           n2 == getNibble2(ins)
           n3 == getNibble3(ins)
           r == Advance(reg)
       IN /\ getNibble1(ins) = 6
          /\ \E w2 \in WildIf(n2 >= NumRegs) :
               RegWrite(r, n3, RegRead(r, n2, w2))
          /\ out' = out
          /\ Observe(ins, adr, {n2, n3})

\* ExecOUT with the register printed as a signed 16-bit value (int16_t).
ExecOUT_signed ==
  /\ Running
  /\ \E wi \in WildIf(reg[0] >= ROMSize), wa \in WildIf(reg[0] + 1 >= ROMSize) :
       LET ins == ROMread(reg[0], wi)
           adr == ROMread(reg[0] + 1, wa)
           n2 == getNibble2(ins)
           r == Advance(reg)
       IN /\ getNibble1(ins) = 7
          /\ \E w2 \in WildIf(n2 >= NumRegs) :
               LET v == RegRead(r, n2, w2)
               IN out' = Append(out, IF v >= 32768 THEN v - WordMod ELSE v)
          /\ reg' = r
          /\ UNCHANGED <<halt, ROM, RAM>>
          /\ Observe(ins, adr, {n2})

\* case 0x7: std::cout << reg[n2] << std::endl
ExecOUT ==
  /\ Running
  /\ \E wi \in WildIf(reg[0] >= ROMSize), wa \in WildIf(reg[0] + 1 >= ROMSize) :
       LET ins == ROMread(reg[0], wi)
           adr == ROMread(reg[0] + 1, wa)
           n2 == getNibble2(ins)
           r == Advance(reg)
       IN /\ getNibble1(ins) = 7
          /\ \E w2 \in WildIf(n2 >= NumRegs) :
               out' = Append(out, RegRead(r, n2, w2))
          /\ reg' = r
          /\ UNCHANGED <<halt, ROM, RAM>>
          /\ Observe(ins, adr, {n2})

\* ExecLDV written as LD: the register is loaded from RAM[address].
ExecLDV_fromRAM ==
  /\ Running
  /\ \E wi \in WildIf(reg[0] >= ROMSize), wa \in WildIf(reg[0] + 1 >= ROMSize) :
       LET ins == ROMread(reg[0], wi)
           adr == ROMread(reg[0] + 1, wa)
           n2 == getNibble2(ins)
           r == Advance(reg)
       IN /\ getNibble1(ins) = 10
          /\ RegWrite(r, n2, IF adr \in DOMAIN RAM THEN RAM[adr] ELSE 0)
          /\ out' = out
          /\ Observe(ins, adr, {n2})

\* case 0xA: reg[n2] = address
ExecLDV ==
  /\ Running
  /\ \E wi \in WildIf(reg[0] >= ROMSize), wa \in WildIf(reg[0] + 1 >= ROMSize) :
       LET ins == ROMread(reg[0], wi)
           adr == ROMread(reg[0] + 1, wa)
           n2 == getNibble2(ins)
           r == Advance(reg)
       IN /\ getNibble1(ins) = 10
          /\ RegWrite(r, n2, adr)
          /\ out' = out
          /\ Observe(ins, adr, {n2})

\* case 0xE: reg[0] = address, depending on the mode n2 and on bit n3 of reg[1]
ExecJ ==
  /\ Running
  /\ \E wi \in WildIf(reg[0] >= ROMSize), wa \in WildIf(reg[0] + 1 >= ROMSize) :
       LET ins == ROMread(reg[0], wi)
           adr == ROMread(reg[0] + 1, wa)
           n2 == getNibble2(ins)
           n3 == getNibble3(ins)
           r == Advance(reg)
       IN /\ getNibble1(ins) = 14
          /\ reg' = IF JumpTaken(n2, n3, r[1])
                    THEN [r EXCEPT ![0] = adr]
                    ELSE r
          /\ UNCHANGED <<halt, ROM, RAM, out>>
          /\ Observe(ins, adr, IF n2 \in {0, 1} THEN {0, 1} ELSE {0})

\* ExecHLT with reg[0] += 2 missing on the default path.
ExecHLT_noAdvance ==
  /\ ~halt
  /\ \E wi \in WildIf(reg[0] >= ROMSize), wa \in WildIf(reg[0] + 1 >= ROMSize) :
       LET ins == ROMread(reg[0], wi)
           adr == ROMread(reg[0] + 1, wa)
       IN /\ getNibble1(ins) \notin {0, 5, 6, 7, 10, 14}
          /\ reg' = reg
          /\ halt' = TRUE
          /\ UNCHANGED <<ROM, RAM, out>>
          /\ Observe(ins, adr, {})

\* default: halt = true (HLT and every opcode without a case)
ExecHLT ==
  /\ Running
  /\ \E wi \in WildIf(reg[0] >= ROMSize), wa \in WildIf(reg[0] + 1 >= ROMSize) :
       LET ins == ROMread(reg[0], wi)
           adr == ROMread(reg[0] + 1, wa)
       IN /\ getNibble1(ins) \notin {0, 5, 6, 7, 10, 14}
          /\ reg' = Advance(reg)
          /\ halt' = TRUE
          /\ UNCHANGED <<ROM, RAM, out>>
          /\ Observe(ins, adr, {})

Next == ExecADD \/ ExecCMP \/ ExecCPY \/ ExecOUT \/ ExecLDV \/ ExecJ \/ ExecHLT

\* ------------------------------------------------------------------------
\* main(): the reset state and the hand-assembled Fibonacci program
\* ------------------------------------------------------------------------

\* ROM[0] .. ROM[17]
FibProgram ==
  << Encode(10, 2, 0, 0), 0,      \* LDV 2, 0x0000
     Encode(10, 3, 0, 0), 1,      \* LDV 3, 0x0001
     Encode(0, 2, 3, 4), 0,       \* ADD 2 3 4
     Encode(7, 4, 0, 0), 0,       \* OUT 4
     Encode(6, 3, 2, 0), 0,       \* CPY 3 2
     Encode(6, 4, 3, 0), 0,       \* CPY 4 3
     Encode(0, 2, 3, 4), 0,       \* ADD 2 3 4
     Encode(5, 4, 3, 0), 0,       \* CMP 4 3
     Encode(14, 1, 0, 0), 6 >>    \* J 1 0, 0x0006

\* The cells the assignments ROM[0] = ... ROM[17] = ... give the words of a
\* program.
Load(words) == [i \in 0 .. (Len(words) - 1) |-> words[i + 1]]

\* Observers before the first cycle.
ObserveInit ==
  /\ instruction = -1
  /\ address = -1
  /\ fetch = <<-1, -1>>
  /\ access = {}
  /\ pre = [reg |-> reg, ROM |-> ROM, RAM |-> RAM, out |-> out]
  /\ cycles = 0
  /\ executedOUT = 0

Init ==
  /\ reg = [n \in 0 .. (NumRegs - 1) |-> 0]
  /\ halt = FALSE
  /\ ROM = Load(FibProgram)
  /\ RAM = [a \in RAMProbe |-> 0]
  /\ out = << >>
  /\ ObserveInit

Spec == Init /\ [][Next]_vars

\* The run loop of main() never pauses for ever while halt is false: usleep
\* returns and the next cycle runs.
FairSpec == Spec /\ WF_vars(Next)

\* ------------------------------------------------------------------------
\* runInstruction on drawn inputs: any register contents, any instruction.
\* The machine is the same; only the program in ROM[0], ROM[1] and the
\* contents of reg[1..4] are inputs instead of main()'s constants.
\* ------------------------------------------------------------------------

\* Register selectors drawn as inputs.
Sel == 0 .. MaxSel

\* Opcodes that fall to the default case of the switch.
DefaultOps == {1, 2, 3, 4, 8, 9, 11, 12, 13, 15}

\* Operand fields drawn for the opcodes of the default case.
DefaultFields == {<<0, 0, 0>>, <<2, 3, 4>>, <<15, 15, 15>>}

\* The instructions drawn as inputs: <<first word, second word>>.
InstrInputs ==
  {<<Encode(0, a, b, c), 0>> : a \in Sel, b \in Sel, c \in Sel}
  \cup {<<Encode(5, a, b, 0), 0>> : a \in Sel, b \in Sel}
  \cup {<<Encode(6, a, b, 0), 0>> : a \in Sel, b \in Sel}
  \cup {<<Encode(7, a, 0, 0), 0>> : a \in Sel}
  \cup {<<Encode(10, a, 0, 0), l>> : a \in Sel, l \in Lits}
  \cup {<<Encode(14, m, f, 0), l>> : m \in Modes, f \in FlagBits, l \in Lits}
  \cup {<<Encode(op, f[1], f[2], f[3]), l>> :
          op \in DefaultOps, f \in DefaultFields, l \in {0, 65535}}

InitAny ==
  /\ reg \in {r \in [0 .. (NumRegs - 1) -> Words \cup FlagInputs] :
                /\ r[0] = 0
                /\ r[1] \in FlagInputs
                /\ \A n \in 2 .. (NumRegs - 1) : r[n] \in Words}
  /\ halt = FALSE
  /\ ROM \in {Load(i) : i \in InstrInputs}
  /\ RAM = [a \in RAMProbe |-> 0]
  /\ out = << >>
  /\ ObserveInit

AnySpec == InitAny /\ [][Next]_vars

\* Contents drawn for each tracked RAM cell at reset.
RamWords == {0, 65535}

\* main() started with any contents of RAM (the comment on RAM: "erased then
\* randomly set whenever the emulated CPU is reset").
InitRam ==
  /\ reg = [n \in 0 .. (NumRegs - 1) |-> 0]
  /\ halt = FALSE
  /\ ROM = Load(FibProgram)
  /\ RAM \in [RAMProbe -> RamWords]
  /\ out = << >>
  /\ ObserveInit

RamSpec == InitRam /\ [][Next]_vars /\ WF_vars(Next)

\* The reset state with any 16-bit word as the instruction at ROM[0]: every
\* word is decoded and dispatched once.
InitDecode ==
  /\ reg = [n \in 0 .. (NumRegs - 1) |-> 0]
  /\ halt = FALSE
  /\ ROM \in {Load(<<w, 0>>) : w \in 0 .. (WordMod - 1)}
  /\ RAM = [a \in RAMProbe |-> 0]
  /\ out = << >>
  /\ ObserveInit

DecodeSpec == InitDecode /\ [][Next]_vars

\* Both of the above: main()'s run and the runs on drawn inputs.
BothSpec == (Init \/ InitAny) /\ [][Next]_vars

\* ------------------------------------------------------------------------
\* Vocabulary of the properties: the fields of an instruction word and the
\* bits of a word, by arithmetic on the word's value.
\* ------------------------------------------------------------------------

Executed == instruction # -1
OpOf(w) == w \div 4096
F2(w) == (w \div 256) % 16
F3(w) == (w \div 16) % 16
F4(w) == w % 16
BitSet(w, k) == (w \div (2 ^ k)) % 2 = 1
GeneralRegs == 2 .. (NumRegs - 1)

\* s and t agree wherever both have an element
Agree(s, t) == \A k \in 1 .. Len(t) : k <= Len(s) => s[k] = t[k]

\* ------------------------------------------------------------------------
\* C1
\* ------------------------------------------------------------------------

\* C1 as stated: the values emitted by the Fibonacci program begin
\* 1, 1, 2, 3, 5, 8, 13, 21.
C1_OutputBegins_1_1_2_3 == Agree(out, <<1, 1, 2, 3, 5, 8, 13, 21>>)

\* C1 (amended): the values emitted by the Fibonacci program from the reset
\* state begin 1, 2, 3, 5, 8, 13, 21, 34, in that order, and the run does not
\* halt before all eight are out.
C1_OutputBegins_1_2_3_5 ==
  /\ Agree(out, <<1, 2, 3, 5, 8, 13, 21, 34>>)
  /\ halt => Len(out) >= 8

C1_EightValuesEmitted == Len(out) = 8 /\ out[8] = 34

\* ------------------------------------------------------------------------
\* C2
\* ------------------------------------------------------------------------

\* C2: the Fibonacci run reaches halt = true; it halts only after the sum in
\* register 4 has wrapped (reg[2] + reg[3] >= 65536, so reg[4] < reg[3] and
\* CMP 4 3 left the greater-than bit clear), by fetching the sentinel 0xFFFF at
\* address 18; and up to then every CMP 4 3 of an unwrapped sum sets the
\* greater-than bit and the jump at 16 goes back to 6.
C2_HaltsWhenSumWraps ==
  /\ <>halt
  /\ [](halt =>
          /\ fetch = <<18, 19>>
          /\ instruction = 65535
          /\ pre.reg[2] + pre.reg[3] >= 65536
          /\ pre.reg[4] = (pre.reg[2] + pre.reg[3]) % 65536
          /\ ~BitSet(pre.reg[1], 0))
  /\ []((Executed /\ fetch[1] = 14) =>
          (BitSet(reg[1], 0) <=> reg[2] + reg[3] < 65536))
  /\ []((Executed /\ fetch[1] = 16) =>
          reg[0] = IF BitSet(reg[1], 0) THEN 6 ELSE 18)

C2_HaltedAtSentinel == halt /\ fetch = <<18, 19>> /\ reg[4] = 9489

\* ------------------------------------------------------------------------
\* C3
\* ------------------------------------------------------------------------

\* C3: after ADD A B C with A, B, C general-purpose registers, reg[C] is the
\* sum of the old reg[A] and reg[B] modulo 65536 and halt is false.
C3_AddWraps ==
  (/\ Executed
   /\ OpOf(instruction) = 0
   /\ {F2(instruction), F3(instruction), F4(instruction)} \subseteq GeneralRegs)
  => /\ reg[F4(instruction)] =
          (pre.reg[F2(instruction)] + pre.reg[F3(instruction)]) % 65536
     /\ ~halt

C3_AddOverflowed ==
  /\ Executed
  /\ OpOf(instruction) = 0
  /\ {F2(instruction), F3(instruction), F4(instruction)} \subseteq GeneralRegs
  /\ pre.reg[F2(instruction)] + pre.reg[F3(instruction)] >= 65536
  /\ reg[F4(instruction)] < pre.reg[F2(instruction)]

\* ------------------------------------------------------------------------
\* C4
\* ------------------------------------------------------------------------

\* C4: after an instruction with opcode 0x1 (SUB A B C) on general-purpose
\* registers, reg[C] is the old reg[A] minus the old reg[B] modulo 65536 and
\* halt is false.
C4_SubWraps ==
  (/\ Executed
   /\ OpOf(instruction) = 1
   /\ {F2(instruction), F3(instruction), F4(instruction)} \subseteq GeneralRegs)
  => /\ reg[F4(instruction)] =
          (pre.reg[F2(instruction)] - pre.reg[F3(instruction)]) % 65536
     /\ ~halt

\* ------------------------------------------------------------------------
\* C5
\* ------------------------------------------------------------------------

\* The register file as the switch finds it: after reg[0] += 2.
Dispatched == [pre.reg EXCEPT ![0] = (pre.reg[0] + 2) % 65536]

\* C5: after CMP A B with A, B in 0..4, exactly one of the flag bits 0, 1, 2
\* is set: bit 0 if a > b, bit 1 if a = b, bit 2 if a < b, for a and b the
\* values reg[A] and reg[B] held when the instruction was dispatched.
C5_CmpMatchesOperands ==
  (/\ Executed
   /\ OpOf(instruction) = 5
   /\ F2(instruction) < NumRegs
   /\ F3(instruction) < NumRegs)
  => LET a == Dispatched[F2(instruction)]
         b == Dispatched[F3(instruction)]
     IN /\ BitSet(reg[1], 0) <=> a > b
        /\ BitSet(reg[1], 1) <=> a = b
        /\ BitSet(reg[1], 2) <=> a < b

\* ------------------------------------------------------------------------
\* C6
\* ------------------------------------------------------------------------

\* Whether the jump whose first word is w is taken when the flags are f.
Taken(w, f) ==
  IF F2(w) = 0 THEN ~BitSet(f, F3(w))
  ELSE IF F2(w) = 1 THEN BitSet(f, F3(w))
  ELSE TRUE

\* The selector of the register an instruction word stores to: f4 of ADD,
\* f3 of CPY, f2 of LDV; -1 for the opcodes that store to no selected register.
Destination(w) ==
  IF OpOf(w) = 0 THEN F4(w)
  ELSE IF OpOf(w) = 6 THEN F3(w)
  ELSE IF OpOf(w) = 10 THEN F2(w)
  ELSE -1

\* C6 as stated: after an instruction that is not a jump the program counter
\* is its old value plus 2 (mod 65536), whatever the operand selectors; after
\* a taken jump it is the literal; after an untaken jump the old value plus 2.
C6_OnlyJumpWritesPC ==
  Executed =>
    reg[0] = IF OpOf(instruction) = 14 /\ Taken(instruction, pre.reg[1])
             THEN address
             ELSE (pre.reg[0] + 2) % 65536

\* C6 (amended): after an instruction that is not a jump and whose destination
\* selector (f4 of ADD, f3 of CPY, f2 of LDV) is not 0, the program counter is
\* its old value plus 2 (mod 65536); after a taken jump it is the literal;
\* after an untaken jump it is the old value plus 2.  ADD, CPY and LDV with
\* destination selector 0 store their result in the program counter.
C6_PCUnlessDestinationZero ==
  (Executed /\ Destination(instruction) # 0) =>
    reg[0] = IF OpOf(instruction) = 14 /\ Taken(instruction, pre.reg[1])
             THEN address
             ELSE (pre.reg[0] + 2) % 65536

C6_PCWrappedPastTop ==
  /\ Executed
  /\ OpOf(instruction) # 14
  /\ Destination(instruction) # 0
  /\ pre.reg[0] = 65534
  /\ reg[0] = 0

\* ------------------------------------------------------------------------
\* C7
\* ------------------------------------------------------------------------

\* C7: a jump with mode 0 sets the program counter to the literal iff bit f3
\* of the flags is clear, with mode 1 iff it is set, with any mode in 2..15
\* always, and otherwise leaves it at the old value plus 2; and the cycle
\* after a taken jump fetches ROM[addr] and ROM[addr + 1].
C7_JumpModes ==
  [][/\ (instruction' # instruction \/ fetch' # fetch \/ cycles' # cycles)
        /\ OpOf(instruction') = 14
        => reg'[0] = IF Taken(instruction', reg[1])
                     THEN address'
                     ELSE (reg[0] + 2) % 65536
     /\ (/\ Executed
         /\ OpOf(instruction) = 14
         /\ Taken(instruction, pre.reg[1])
         /\ vars' # vars)
        => /\ fetch' = <<address, address + 1>>
           /\ address < ROMSize =>
                instruction' = (IF address \in DOMAIN ROM
                                THEN ROM[address] ELSE 65535)
           /\ address + 1 < ROMSize =>
                address' = (IF address + 1 \in DOMAIN ROM
                            THEN ROM[address + 1] ELSE 65535)
    ]_vars

C7_FetchedAtTarget ==
  /\ fetch = <<6, 7>>
  /\ OpOf(pre.ROM[0]) = 14
  /\ F2(pre.ROM[0]) = 1
  /\ pre.reg[0] = 6

\* ------------------------------------------------------------------------
\* C8
\* ------------------------------------------------------------------------

\* The program whose only instruction is HLT: 0xF000, 0x0000
HLTOnly == Load(<<61440, 0>>)

\* C8: halt is false at reset; once halt is true no further cycle runs, so
\* nothing changes any more; and the program whose only instruction is HLT
\* is halted after exactly one cycle, with nothing emitted.
C8_HaltIsTerminal ==
  /\ ~halt
  /\ [][halt => UNCHANGED vars]_vars
  /\ []((ROM = HLTOnly /\ Executed) => (halt /\ cycles = 1 /\ out = << >>))

C8_HLTOnlyHalted == ROM = HLTOnly /\ halt /\ cycles = 1 /\ out = << >>

\* ------------------------------------------------------------------------
\* C9
\* ------------------------------------------------------------------------

\* C9: an instruction whose opcode is HLT (0xF) or reserved (0xB, 0xC, 0xD)
\* sets halt and changes nothing else but the program counter, which becomes
\* its old value plus 2.
C9_HLTFrame ==
  (Executed /\ OpOf(instruction) \in {11, 12, 13, 15}) =>
    /\ halt
    /\ \A n \in 1 .. (NumRegs - 1) : reg[n] = pre.reg[n]
    /\ reg[0] = (pre.reg[0] + 2) % 65536
    /\ ROM = pre.ROM
    /\ RAM = pre.RAM
    /\ out = pre.out

C9_ReservedHalted ==
  /\ Executed
  /\ OpOf(instruction) = 12
  /\ F2(instruction) = 15
  /\ address = 65535
  /\ halt
  /\ reg[1] = 65535

\* ------------------------------------------------------------------------
\* C10
\* ------------------------------------------------------------------------

\* C10: a register selector outside 0..N-1 is answered by a fault, not by an
\* access: no instruction reads or writes a slot outside the register file.
C10_NoAccessOutsideRegisterFile == \A n \in access : n < NumRegs

\* ------------------------------------------------------------------------
\* C11
\* ------------------------------------------------------------------------

\* The register selectors an instruction word uses all index the register
\* file.
SelectorsInRange(w) ==
  /\ OpOf(w) = 0 => (F2(w) < NumRegs /\ F3(w) < NumRegs /\ F4(w) < NumRegs)
  /\ OpOf(w) \in {5, 6} => (F2(w) < NumRegs /\ F3(w) < NumRegs)
  /\ OpOf(w) \in {7, 10} => F2(w) < NumRegs

\* No word of the loaded program, executed as an instruction, selects a
\* register outside the register file.
ProgramInRange == \A i \in DOMAIN ROM : SelectorsInRange(ROM[i])

\* C11: in every cycle both fetch indices, the program counter and the
\* program counter plus 1, lie inside the Program Store array, whatever the
\* program counter is (stated for the programs whose register selectors are
\* all in range, so that no out-of-range register access is involved).
C11_FetchInsideROM ==
  (Executed /\ ProgramInRange) => (fetch[1] < ROMSize /\ fetch[2] < ROMSize)

\* ------------------------------------------------------------------------
\* C12
\* ------------------------------------------------------------------------

\* C12: a cycle that starts at an address in 0..65535 the program did not
\* write fetches the sentinel 0xFFFF and halts at once: no register but the
\* program counter changes and nothing is emitted (stated for the programs
\* whose register selectors are all in range).
C12_UnwrittenAddressHalts ==
  (Executed /\ ProgramInRange /\ fetch[1] \notin DOMAIN pre.ROM) =>
    /\ instruction = 65535
    /\ halt
    /\ \A n \in 1 .. (NumRegs - 1) : reg[n] = pre.reg[n]
    /\ out = pre.out

\* ------------------------------------------------------------------------
\* C13
\* ------------------------------------------------------------------------

\* C13: MOV A, addr (opcode 0x8) on a general-purpose register writes reg[A]
\* to the Data Store at addr without halting, and LD B, addr (opcode 0x9)
\* loads the word the Data Store holds at addr into reg[B] without halting.
C13_StoreLoadRoundTrip ==
  /\ (/\ Executed
      /\ OpOf(instruction) = 8
      /\ F2(instruction) \in GeneralRegs)
     => /\ ~halt
        /\ address \in DOMAIN RAM => RAM[address] = pre.reg[F2(instruction)]
  /\ (/\ Executed
      /\ OpOf(instruction) = 9
      /\ F2(instruction) \in GeneralRegs)
     => /\ ~halt
        /\ address \in DOMAIN RAM => reg[F2(instruction)] = pre.RAM[address]

\* ------------------------------------------------------------------------
\* C14
\* ------------------------------------------------------------------------

\* C14: OUT A appends exactly one value to the output stream, the unsigned
\* 16-bit contents of reg[A], and changes no register but the program
\* counter; every other opcode leaves the output stream as it was; so the
\* number of values emitted is the number of OUT instructions executed.
C14_OutputOnlyByOUT ==
  /\ Len(out) = executedOUT
  /\ (Executed /\ OpOf(instruction) = 7) =>
       /\ Len(out) = Len(pre.out) + 1
       /\ SubSeq(out, 1, Len(pre.out)) = pre.out
       /\ out[Len(out)] \in 0 .. 65535
       /\ F2(instruction) < NumRegs =>
            out[Len(out)] = Dispatched[F2(instruction)]
       /\ \A n \in 1 .. (NumRegs - 1) : reg[n] = pre.reg[n]
       /\ reg[0] = (pre.reg[0] + 2) % 65536
  /\ (Executed /\ OpOf(instruction) # 7) => out = pre.out

C14_EmittedHighWord ==
  /\ Executed
  /\ OpOf(instruction) = 7
  /\ F2(instruction) \in GeneralRegs
  /\ out = <<65535>>

\* ------------------------------------------------------------------------
\* C15
\* ------------------------------------------------------------------------

\* The selectors the last instruction used all index the register file.
AccessInRange == \A n \in access : n < NumRegs

\* C15 as stated: after every instruction whose opcode is not CMP, with
\* operand selectors in 0..4, the flags register is what it was before.
C15_OnlyCmpWritesFlags ==
  (Executed /\ OpOf(instruction) # 5 /\ AccessInRange) =>
    reg[1] = pre.reg[1]

\* C15 (amended): after every instruction whose opcode is not CMP, with
\* operand selectors in 0..4 and a destination selector (f4 of ADD, f3 of
\* CPY, f2 of LDV) that is not 1, the flags register is what it was before.
\* ADD, CPY and LDV with destination selector 1 store their result in the
\* flags register.
C15_FlagsUnlessDestinationOne ==
  (/\ Executed
   /\ OpOf(instruction) # 5
   /\ AccessInRange
   /\ Destination(instruction) # 1)
  => reg[1] = pre.reg[1]

C15_AddOverflowKeptFlags ==
  /\ Executed
  /\ OpOf(instruction) = 0
  /\ F4(instruction) \in GeneralRegs
  /\ AccessInRange
  /\ pre.reg[F2(instruction)] + pre.reg[F3(instruction)] >= 65536
  /\ reg[1] = 4

\* ------------------------------------------------------------------------
\* C16
\* ------------------------------------------------------------------------

\* C16: CMP A B on general-purpose registers leaves bits 3..15 of the flags
\* register as they were and changes no register but the flags register and
\* the program counter.
C16_CmpKeepsReservedBits ==
  (/\ Executed
   /\ OpOf(instruction) = 5
   /\ F2(instruction) \in GeneralRegs
   /\ F3(instruction) \in GeneralRegs)
  => /\ reg[1] \div 8 = pre.reg[1] \div 8
     /\ \A n \in GeneralRegs : reg[n] = pre.reg[n]

C16_CmpWithReservedBitsSet ==
  /\ Executed
  /\ OpOf(instruction) = 5
  /\ F2(instruction) \in GeneralRegs
  /\ F3(instruction) \in GeneralRegs
  /\ pre.reg[1] = 32776
  /\ reg[1] = 32776 + 4

\* ------------------------------------------------------------------------
\* C17
\* ------------------------------------------------------------------------

\* The word the Program Store holds at address i, for an address inside it.
StoreWord(rom, i) == IF i \in DOMAIN rom THEN rom[i] ELSE 65535

\* C17: for programs whose register selectors are in 0..4, no cycle changes
\* the Program Store, and the instruction word and the literal of every
\* cycle are words of the Program Store, those at the program counter and at
\* the program counter plus 1.
C17_HarvardSeparation ==
  (Executed /\ ProgramInRange /\ AccessInRange) =>
    /\ ROM = pre.ROM
    /\ fetch[1] < ROMSize /\ instruction = StoreWord(pre.ROM, fetch[1])
    /\ fetch[2] < ROMSize /\ address = StoreWord(pre.ROM, fetch[2])

\* ------------------------------------------------------------------------
\* C18
\* ------------------------------------------------------------------------

\* The values the Fibonacci program emits.
FibTrace ==
  <<1, 2, 3, 5, 8, 13, 21, 34, 55, 89, 144, 233, 377, 610, 987, 1597, 2584,
    4181, 6765, 10946, 17711, 28657, 46368>>

\* C18: whatever the Data Store holds at reset, the run of the Fibonacci
\* program emits the same values in the same order and halts at the same
\* point: every run's output is a prefix of one fixed trace, every run halts,
\* and a halted run has emitted exactly that trace and stopped at address 18.
\* (Two runs that both equal the fixed trace equal each other.)
C18_SameRunForAnyRAM ==
  /\ <>halt
  /\ [](/\ Len(out) <= Len(FibTrace)
        /\ Agree(out, FibTrace)
        /\ halt => (out = FibTrace /\ fetch = <<18, 19>>))

C18_HaltedWithOtherRAM ==
  /\ halt
  /\ out = FibTrace
  /\ RAM[0] = 65535
  /\ RAM[1] = 0

\* ------------------------------------------------------------------------
\* C19
\* ------------------------------------------------------------------------

\* C19: for every 16-bit instruction word w, the four fields getNibble1 ..
\* getNibble4 produce lie in 0..15 and compose back to w:
\* n1 * 4096 + n2 * 256 + n3 * 16 + n4 = w, n1 being bits 15..12; and the
\* selectors an ADD uses are exactly its three operand fields.
C19_DecodeLossless ==
  Executed =>
    LET w == instruction
        n1 == getNibble1(w)
        n2 == getNibble2(w)
        n3 == getNibble3(w)
        n4 == getNibble4(w)
    IN /\ {n1, n2, n3, n4} \subseteq 0 .. 15
       /\ n1 * 4096 + n2 * 256 + n3 * 16 + n4 = w
       /\ n1 = 0 => access = {(w \div 256) % 16, (w \div 16) % 16, w % 16}

C19_DecodedMixedWord ==
  /\ instruction = 4660
  /\ getNibble1(instruction) = 1
  /\ getNibble2(instruction) = 2
  /\ getNibble3(instruction) = 3
  /\ getNibble4(instruction) = 4

\* ------------------------------------------------------------------------
\* C20
\* ------------------------------------------------------------------------

\* C20: the values the Fibonacci program prints are strictly increasing,
\* each one from the third on the true (unwrapped) sum of the two before it:
\* a sum that wrapped around 65536 is never printed.
C20_OutputStrictlyIncreasing ==
  /\ \A k \in 2 .. Len(out) : out[k] > out[k - 1]
  /\ \A k \in 3 .. Len(out) : out[k] = out[k - 1] + out[k - 2]
  /\ \A k \in 1 .. Len(out) : out[k] # (28657 + 46368) % WordMod

\* The run has ended right after the sum 28657 + 46368 wrapped into a
\* register, with 46368 the last value printed.
C20_WrappedSumNotPrinted ==
  /\ halt
  /\ Len(out) = 23
  /\ out[23] = 46368
  /\ \E n \in GeneralRegs : reg[n] = 9489

====
